---- MODULE Spec2Model ----
(***************************************************************************)
(* Model of the esp-drum-midi-controller firmware: the per-pad debounce    *)
(* routines and the sensor-bank round of tasks/gpio.rs, the hit-event      *)
(* channel with its overwrite-oldest force_send, the BLE-MIDI packet       *)
(* encoding of trouble_midi.rs and the sensor-gated advertising /          *)
(* connection loop of tasks/ble.rs.                                        *)
(*                                                                         *)
(* Time is an integer number of microseconds.  The executor is single-core *)
(* and cooperative: a task that can run runs before the executor idles, so *)
(* time passes and the outside world acts only when no task is runnable.   *)
(***************************************************************************)
EXTENDS Integers, Sequences, FiniteSets, TLC

\* ------------------------------------------------------------------ bounds
\* number of raw pin level changes the environment makes
MaxEdges == 3
\* number of connections a peer establishes
MaxConns == 2
\* number of messages sent into the channel under SpecQueue
MaxSends == 20
\* length of the longest value a peer writes under SpecGatt
MaxWrite == 6

\* ------------------------------------------------------- program constants
BassDrum == 36
Snare == 38
ClosedHiHat == 42
PedalHiHat == 44
OpenHiHat == 46
FloorTom == 43
LowTom == 45
HighTom == 48
CrashCymbal1 == 49
CrashCymbal2 == 57
RideCymbal == 51

DrumNote ==
    {BassDrum, Snare, ClosedHiHat, PedalHiHat, OpenHiHat, FloorTom, LowTom,
     HighTom, CrashCymbal1, CrashCymbal2, RideCymbal}

\* the pads of pins_notes_map that the model drives
pins_notes_map == {PedalHiHat, OpenHiHat, Snare}

\* all durations in microseconds
INITIAL_SENSORS_STABILIZE_TIME == 200000
SWITCH_OFF_SENSORS_STABILIZE_TIME == 200000
\* the hold written with a digit missing: 3 ms
HitDebounceTimeShort == 30000 \div 10
HIT_DEBOUNCE_TIME == 30000
STABLE_DURATION == 150

\* capacity of HitEventsChannel
N == 16
\* the channel given by its one-based number
MidiChannelOneBased == 9 + 1
MIDI_CHANNEL == 9
MIDI_VELOCITY == 100
\* BleMidiPacket<5> of MidiService
CAP == 5
MIN_SIZE == 3

\* delay after which the environment reverses a pin level inside the
\* stability window of its pad
NoiseTime == 100
\* delay after which it changes a pin level otherwise: together with the
\* window, a 5 ms hold (longer than the window, shorter than the hit debounce)
HoldTime == 4850

VARIABLES
    now,                      \* monotonic clock, microseconds
    level,                    \* raw level of each pin (TRUE = high)
    pinPc,                    \* position of each pad's watch_pin_for_hits
    pinTimer,                 \* time left on the timer a pad routine awaits
    gpioPc,                   \* position of watch_gpios_task
    gpioTimer,                \* time left on the timer watch_gpios_task awaits
    pin_high_count,           \* SharedPinsState.pin_high_count (u8)
    is_pedal_hi_hat_pressed,  \* SharedPinsState.is_pedal_hi_hat_pressed
    status_signal,            \* the single-slot Signal: "None", "On", "Off"
    lastStatus,               \* the value of the most recent signal() call
    hit_events,               \* the channel: sequence of [ts, note]
    lmPc,                     \* position of the loop of peripheral_run
    blinkDone,                \* connected_led_blink_task has finished
    svcDone,                  \* connection_service_tasks has finished
    conn,                     \* the GattConnection held (0 = none)
    conns,                    \* the connections currently alive
    nextConn,                 \* number of connections accepted so far
    accepted,                 \* when the connection held was accepted (0 = none)
    inbound,                  \* the last value a peer wrote and its decoding
    notified,                 \* notifications pushed to the peer, in order
    ended,                    \* for each connection so far, why its duties ended
    edges                     \* number of pin level changes so far

gpioVars == <<level, pinPc, pinTimer, gpioPc, gpioTimer, pin_high_count,
              is_pedal_hi_hat_pressed, edges>>
lmVars == <<lmPc, blinkDone, svcDone, conn, conns,
            nextConn, accepted, inbound, notified, ended>>
vars == <<now, level, pinPc, pinTimer, gpioPc, gpioTimer, pin_high_count,
          is_pedal_hi_hat_pressed, status_signal, lastStatus, hit_events,
          lmPc, blinkDone, svcDone, conn, conns,
          nextConn, accepted, inbound, notified, ended, edges>>

\* ------------------------------------------------------------ bit helpers
RECURSIVE BitAnd(_, _)
BitAnd(a, b) ==
    IF a = 0 \/ b = 0 THEN 0
    ELSE (a % 2) * (b % 2) + 2 * BitAnd(a \div 2, b \div 2)

RECURSIVE BitOr(_, _)
BitOr(a, b) ==
    IF a = 0 THEN b
    ELSE IF b = 0 THEN a
    ELSE (IF a % 2 = 1 \/ b % 2 = 1 THEN 1 ELSE 0)
         + 2 * BitOr(a \div 2, b \div 2)

RECURSIVE Pow2(_)
Pow2(k) == IF k = 0 THEN 1 ELSE 2 * Pow2(k - 1)

Shr(a, k) == a \div Pow2(k)
AsU8(x) == x % 256
AsU16(x) == x % 65536

\* ------------------------------------------------------- MIDI wire codec
\* the milliseconds cast to u8
as_timestamp_u8(instant) == AsU8(instant \div 1000)

\* impl AsTimestamp for Instant: self.as_millis() as u16
as_timestamp(instant) == AsU16(instant \div 1000)

NoteOn(channel, note, velocity) ==
    [kind |-> "NoteOn", channel |-> channel, note |-> note,
     velocity |-> velocity]
Reset == [kind |-> "Reset"]

\* msg.render_slice(&mut buffer[2..]): the status and data bytes
render_slice(msg) ==
    IF msg.kind = "NoteOn"
    THEN <<BitOr(144, msg.channel), msg.note, msg.velocity>>
    ELSE <<255>>

is_system_msg_status_byte(status) == BitAnd(status, 240) = 240

\* the header built without the 0x3F mask
add_timestamped_unmasked(millis, msg) ==
    LET header == BitOr(128, AsU8(Shr(millis, 7)))
        timestamp == BitOr(128, BitAnd(AsU8(millis), 127))
        rendered == render_slice(msg)
        len == Len(rendered)
        buffer == [i \in 1..CAP |->
                     IF i = 1 THEN header
                     ELSE IF i = 2 THEN timestamp
                     ELSE IF i - 2 <= len THEN rendered[i - 2] ELSE 0]
    IN [packet |-> [buffer |-> buffer, len |-> 2 + len],
        running_status |->
            IF is_system_msg_status_byte(buffer[3]) THEN <<>>
            ELSE <<buffer[3]>>,
        timestamp_byte |-> timestamp]

\* BleMidiPacket::add_timestamped, on the u16 millisecond timestamp
add_timestamped(millis, msg) ==
    LET header == BitOr(128, BitAnd(AsU8(Shr(millis, 7)), 63))
        timestamp == BitOr(128, BitAnd(AsU8(millis), 127))
        rendered == render_slice(msg)
        len == Len(rendered)
        buffer == [i \in 1..CAP |->
                     IF i = 1 THEN header
                     ELSE IF i = 2 THEN timestamp
                     ELSE IF i - 2 <= len THEN rendered[i - 2] ELSE 0]
    IN [packet |-> [buffer |-> buffer, len |-> 2 + len],
        running_status |->
            IF is_system_msg_status_byte(buffer[3]) THEN <<>>
            ELSE <<buffer[3]>>,
        timestamp_byte |-> timestamp]

\* BleMidiPacketBuilder::build
build(builder) == builder.packet

\* From<(Ts, MidiMessage)> for BleMidiPacket
PacketFrom(instant, msg) == build(add_timestamped(as_timestamp(instant), msg))

\* AsGatt::as_gatt: &self.buffer[..self.len]
as_gatt(packet) == SubSeq(packet.buffer, 1, packet.len)

\* AsGatt::MAX_SIZE
MAX_SIZE == CAP

\* the lower bound compared with <= : a packet of MIN_SIZE bytes is refused
from_gatt_refuses_min_size(data) ==
    IF Len(data) <= MIN_SIZE \/ Len(data) > MAX_SIZE
    THEN [ok |-> FALSE, err |-> "InvalidLength"]
    ELSE [ok |-> TRUE,
          packet |-> [buffer |-> [i \in 1..CAP |->
                                    IF i <= Len(data) THEN data[i] ELSE 0],
                      len |-> Len(data)]]

\* FromGatt::from_gatt
from_gatt(data) ==
    IF Len(data) < MIN_SIZE \/ Len(data) > MAX_SIZE
    THEN [ok |-> FALSE, err |-> "InvalidLength"]
    ELSE [ok |-> TRUE,
          packet |-> [buffer |-> [i \in 1..CAP |->
                                    IF i <= Len(data) THEN data[i] ELSE 0],
                      len |-> Len(data)]]

\* no value has been written by a peer
NoWrite == [data |-> <<>>, decoded |-> [ok |-> FALSE, err |-> "None"]]

\* ------------------------------------------------------- hit event queue
try_receive(q) == IF q = <<>> THEN q ELSE Tail(q)

\* the queue left as it is
clear_skipped(q) == q

\* Channel::clear: every queued message is dropped
clear(q) == <<>>

\* a plain try_send: the message is dropped when the channel is full
force_send_drops_when_full(q, message) ==
    IF Len(q) < N THEN Append(q, message) ELSE q

\* ForceSend::force_send: try_send, and on Full drop the oldest and retry
RECURSIVE force_send(_, _)
force_send(q, message) ==
    IF Len(q) < N THEN Append(q, message)
    ELSE force_send(try_receive(q), message)

\* ------------------------------------------------------------ scheduling
SetMin(S) == CHOOSE x \in S : \A y \in S : x <= y

\* time left on the timers some task is suspended on
ActiveTimers ==
    {pinTimer[p] : p \in {q \in pins_notes_map :
                            pinPc[q] \in {"StableHigh", "StableLow", "Debounce"}}}
    \cup (IF gpioPc \in {"InitDelay", "Rearm"} THEN {gpioTimer} ELSE {})

\* position of each modelled pad in the array pins_notes_map of main
PinIndex(p) ==
    IF p = PedalHiHat THEN 1 ELSE IF p = OpenHiHat THEN 2 ELSE 9

PadRunnable(p) ==
    \/ pinPc[p] = "WaitHigh" /\ level[p]
    \/ pinPc[p] = "StableHigh" /\ (~level[p] \/ pinTimer[p] = 0)
    \/ pinPc[p] = "WaitLow" /\ ~level[p]
    \/ pinPc[p] = "StableLow" /\ (level[p] \/ pinTimer[p] = 0)
    \/ pinPc[p] = "Debounce" /\ pinTimer[p] = 0

GpioRunnable ==
    \/ gpioPc \in {"InitDelay", "Rearm"} /\ gpioTimer = 0
    \/ gpioPc = "WaitAnyHigh" /\ \E p \in pins_notes_map : level[p]
    \/ gpioPc = "Round" /\ \E p \in pins_notes_map : PadRunnable(p)

\* select_slice polls the pad routines in slice order: pad p is polled once
\* the routines before it are suspended
PadTurn(p) ==
    /\ gpioPc = "Round"
    /\ PadRunnable(p)
    /\ \A q \in pins_notes_map : PinIndex(q) < PinIndex(p) => ~PadRunnable(q)

LmReady ==
    \/ status_signal # "None"
    \/ lmPc = "Connected" /\ ~svcDone /\ hit_events # <<>>

\* the link manager is polled once watch_gpios_task is suspended
LmTurn == ~GpioRunnable

\* some task of the executor can make a step without time passing
Runnable == GpioRunnable \/ LmReady

\* the executor idles with no short timer running: the moments at which the
\* peer acts and at which the long timeouts of the link manager (60 s of
\* advertising, 1 s of LED blinking) fall due
Quiet == ~Runnable /\ ActiveTimers = {}

\* Signal::signal: overwrite the single slot
signal(status) ==
    /\ status_signal' = status
    /\ lastStatus' = status

\* ------------------------------------------------------------------ Init
Init ==
    /\ now = 0
    /\ level \in [pins_notes_map -> BOOLEAN]
    /\ pinPc = [p \in pins_notes_map |-> "Idle"]
    /\ pinTimer = [p \in pins_notes_map |-> 0]
    /\ gpioPc = "InitDelay"
    /\ gpioTimer = INITIAL_SENSORS_STABILIZE_TIME
    /\ pin_high_count = 0
    /\ is_pedal_hi_hat_pressed = FALSE
    /\ status_signal = "None"
    /\ lastStatus = "None"
    /\ hit_events = <<>>
    /\ lmPc = "WaitOn"
    /\ blinkDone = FALSE
    /\ svcDone = FALSE
    /\ conn = 0
    /\ conns = {}
    /\ nextConn = 0
    /\ accepted = 0
    /\ inbound = NoWrite
    /\ notified = <<>>
    /\ ended = <<>>
    /\ edges = 0

\* ------------------------------------------------- tasks/gpio.rs actions
\* Timer::after(INITIAL_SENSORS_STABILIZE_TIME) elapses
InitialStabilizeElapsed ==
    /\ gpioPc = "InitDelay"
    /\ gpioTimer = 0
    /\ gpioPc' = "WaitAnyHigh"
    /\ UNCHANGED <<now, level, pinPc, pinTimer, gpioTimer, pin_high_count,
                   is_pedal_hi_hat_pressed, status_signal, lastStatus,
                   hit_events, edges>>
    /\ UNCHANGED lmVars

\* SharedPinsState allocated once, outside the loop: the round starts with
\* the count and the flag the last round left
RoundStartKeepsState ==
    /\ gpioPc = "WaitAnyHigh"
    /\ \E p \in pins_notes_map : level[p]
    /\ signal("On")
    /\ gpioPc' = "Round"
    /\ pinPc' = [p \in pins_notes_map |-> "WaitHigh"]
    /\ pinTimer' = [p \in pins_notes_map |-> 0]
    /\ UNCHANGED <<now, level, gpioTimer, hit_events, edges, pin_high_count,
                   is_pedal_hi_hat_pressed>>
    /\ UNCHANGED lmVars

\* the first select_slice completes: some pin is high; status On is
\* signaled, the round state is allocated and the pad routines start
RoundStart ==
    /\ gpioPc = "WaitAnyHigh"
    /\ \E p \in pins_notes_map : level[p]
    /\ signal("On")
    /\ pin_high_count' = 0
    /\ is_pedal_hi_hat_pressed' = FALSE
    /\ gpioPc' = "Round"
    /\ pinPc' = [p \in pins_notes_map |-> "WaitHigh"]
    /\ pinTimer' = [p \in pins_notes_map |-> 0]
    /\ UNCHANGED <<now, level, gpioTimer, hit_events, edges>>
    /\ UNCHANGED lmVars

\* wait_for_stable_high: wait_for_high returns, the stability window opens
StableHighWindowOpens(p) ==
    /\ PadTurn(p)
    /\ pinPc[p] = "WaitHigh"
    /\ level[p]
    /\ pinPc' = [pinPc EXCEPT ![p] = "StableHigh"]
    /\ pinTimer' = [pinTimer EXCEPT ![p] = STABLE_DURATION]
    /\ UNCHANGED <<now, level, gpioPc, gpioTimer, pin_high_count,
                   is_pedal_hi_hat_pressed, status_signal, lastStatus,
                   hit_events, edges>>
    /\ UNCHANGED lmVars

\* the noise check inverted: a reversal inside the window breaks the loop and
\* the edge is counted
StableHighNoiseAccepted(p) ==
    /\ PadTurn(p)
    /\ pinPc[p] = "StableHigh"
    /\ ~level[p]
    /\ pin_high_count' = (pin_high_count + 1) % 256
    /\ pinPc' = [pinPc EXCEPT ![p] = "WaitLow"]
    /\ pinTimer' = [pinTimer EXCEPT ![p] = 0]
    /\ UNCHANGED <<now, level, gpioPc, gpioTimer, is_pedal_hi_hat_pressed,
                   status_signal, lastStatus, hit_events, edges>>
    /\ UNCHANGED lmVars

\* wait_for_stable_high: wait_for_low returned inside the window (Ok), the
\* loop starts over
StableHighNoise(p) ==
    /\ PadTurn(p)
    /\ pinPc[p] = "StableHigh"
    /\ ~level[p]
    /\ pinPc' = [pinPc EXCEPT ![p] = "WaitHigh"]
    /\ pinTimer' = [pinTimer EXCEPT ![p] = 0]
    /\ UNCHANGED <<now, level, gpioPc, gpioTimer, pin_high_count,
                   is_pedal_hi_hat_pressed, status_signal, lastStatus,
                   hit_events, edges>>
    /\ UNCHANGED lmVars

\* pin_high_count.update(|c| c + 1) on a u8
Increment(c) == (c + 1) % 256
\* the decrement left out
DecrementSkipped(c) == c

\* pin_high_count.update(|c| c - 1) on a u8
Decrement(c) == (c + 255) % 256

\* the flag is not cleared when the pedal pad goes high
RisingEdgeKeepsFlag(p) ==
    /\ PadTurn(p)
    /\ pinPc[p] = "StableHigh"
    /\ level[p]
    /\ pinTimer[p] = 0
    /\ pin_high_count' = Increment(pin_high_count)
    /\ pinPc' = [pinPc EXCEPT ![p] = "WaitLow"]
    /\ pinTimer' = [pinTimer EXCEPT ![p] = 0]
    /\ UNCHANGED <<now, level, gpioPc, gpioTimer, status_signal, lastStatus,
                   hit_events, edges, is_pedal_hi_hat_pressed>>
    /\ UNCHANGED lmVars

\* watch_pin_for_hits, first block: the window elapsed (TimeoutError), the
\* rising edge is accepted
RisingEdge(p) ==
    /\ PadTurn(p)
    /\ pinPc[p] = "StableHigh"
    /\ level[p]
    /\ pinTimer[p] = 0
    /\ pin_high_count' = Increment(pin_high_count)
    /\ is_pedal_hi_hat_pressed' =
         IF p = PedalHiHat THEN FALSE ELSE is_pedal_hi_hat_pressed
    /\ pinPc' = [pinPc EXCEPT ![p] = "WaitLow"]
    /\ pinTimer' = [pinTimer EXCEPT ![p] = 0]
    /\ UNCHANGED <<now, level, gpioPc, gpioTimer, status_signal, lastStatus,
                   hit_events, edges>>
    /\ UNCHANGED lmVars

\* wait_for_stable_low: wait_for_low returns, the stability window opens
StableLowWindowOpens(p) ==
    /\ PadTurn(p)
    /\ pinPc[p] = "WaitLow"
    /\ ~level[p]
    /\ pinPc' = [pinPc EXCEPT ![p] = "StableLow"]
    /\ pinTimer' = [pinTimer EXCEPT ![p] = STABLE_DURATION]
    /\ UNCHANGED <<now, level, gpioPc, gpioTimer, pin_high_count,
                   is_pedal_hi_hat_pressed, status_signal, lastStatus,
                   hit_events, edges>>
    /\ UNCHANGED lmVars

\* wait_for_stable_low: wait_for_high returned inside the window (Ok), the
\* loop starts over
StableLowNoise(p) ==
    /\ PadTurn(p)
    /\ pinPc[p] = "StableLow"
    /\ level[p]
    /\ pinPc' = [pinPc EXCEPT ![p] = "WaitLow"]
    /\ pinTimer' = [pinTimer EXCEPT ![p] = 0]
    /\ UNCHANGED <<now, level, gpioPc, gpioTimer, pin_high_count,
                   is_pedal_hi_hat_pressed, status_signal, lastStatus,
                   hit_events, edges>>
    /\ UNCHANGED lmVars

\* the note without the hi-hat reclassification
EmittedNoteUnclassified(p, pedal) == p

\* the note watch_pin_for_hits emits for pad p
EmittedNote(p, pedal) ==
    IF p = OpenHiHat /\ pedal THEN ClosedHiHat ELSE p

\* the check for a count of 0 left out: every release is a hit and the
\* round never ends
FallingEdgeNoBreak(p) ==
    /\ PadTurn(p)
    /\ pinPc[p] = "StableLow"
    /\ ~level[p]
    /\ pinTimer[p] = 0
    /\ LET timestamp == now
           pedal == IF p = PedalHiHat THEN TRUE ELSE is_pedal_hi_hat_pressed
       IN /\ pin_high_count' = Decrement(pin_high_count)
          /\ is_pedal_hi_hat_pressed' = pedal
          /\ hit_events' =
               force_send(hit_events,
                          [ts |-> timestamp, note |-> EmittedNote(p, pedal)])
          /\ pinPc' = [pinPc EXCEPT ![p] = "Debounce"]
          /\ pinTimer' = [pinTimer EXCEPT ![p] = HIT_DEBOUNCE_TIME]
    /\ UNCHANGED <<now, level, edges, gpioPc, gpioTimer, status_signal,
                   lastStatus>>
    /\ UNCHANGED lmVars

\* the check for a count of 0 placed after force_send: the last release of
\* the round sets the flag and sends its hit before the routine exits
FallingEdgeBreaksAfterSend(p) ==
    /\ PadTurn(p)
    /\ pinPc[p] = "StableLow"
    /\ ~level[p]
    /\ pinTimer[p] = 0
    /\ LET timestamp == now
           count == Decrement(pin_high_count)
           pedal == IF p = PedalHiHat THEN TRUE ELSE is_pedal_hi_hat_pressed
       IN /\ pin_high_count' = count
          /\ is_pedal_hi_hat_pressed' = pedal
          /\ hit_events' =
               force_send(hit_events,
                          [ts |-> timestamp, note |-> EmittedNote(p, pedal)])
          /\ IF count = 0
             THEN /\ signal("Off")
                  /\ gpioPc' = "Rearm"
                  /\ gpioTimer' = SWITCH_OFF_SENSORS_STABILIZE_TIME
                  /\ pinPc' = [q \in pins_notes_map |-> "Idle"]
                  /\ pinTimer' = [q \in pins_notes_map |-> 0]
             ELSE /\ pinPc' = [pinPc EXCEPT ![p] = "Debounce"]
                  /\ pinTimer' =
                       [pinTimer EXCEPT ![p] = HIT_DEBOUNCE_TIME]
                  /\ UNCHANGED <<gpioPc, gpioTimer, status_signal, lastStatus>>
    /\ UNCHANGED <<now, level, edges>>
    /\ UNCHANGED lmVars

\* watch_pin_for_hits, second block: the window elapsed, the falling edge
\* is accepted.  A count of 0 breaks the routine, which completes the second
\* select_slice of watch_gpios_task: the other routines are dropped, status
\* Off is signaled and the re-arm delay starts.
FallingEdge(p) ==
    /\ PadTurn(p)
    /\ pinPc[p] = "StableLow"
    /\ ~level[p]
    /\ pinTimer[p] = 0
    /\ LET timestamp == now
           count == Decrement(pin_high_count)
           pedal == IF p = PedalHiHat THEN TRUE ELSE is_pedal_hi_hat_pressed
       IN /\ pin_high_count' = count
          /\ IF count = 0
             THEN /\ signal("Off")
                  /\ gpioPc' = "Rearm"
                  /\ gpioTimer' = SWITCH_OFF_SENSORS_STABILIZE_TIME
                  /\ pinPc' = [q \in pins_notes_map |-> "Idle"]
                  /\ pinTimer' = [q \in pins_notes_map |-> 0]
                  /\ UNCHANGED <<is_pedal_hi_hat_pressed, hit_events>>
             ELSE /\ is_pedal_hi_hat_pressed' = pedal
                  /\ hit_events' =
                       force_send(hit_events,
                                  [ts |-> timestamp,
                                   note |-> EmittedNote(p, pedal)])
                  /\ pinPc' = [pinPc EXCEPT ![p] = "Debounce"]
                  /\ pinTimer' =
                       [pinTimer EXCEPT ![p] = HIT_DEBOUNCE_TIME]
                  /\ UNCHANGED <<gpioPc, gpioTimer, status_signal, lastStatus>>
    /\ UNCHANGED <<now, level, edges>>
    /\ UNCHANGED lmVars

\* Timer::at(timestamp + HIT_DEBOUNCE_TIME) elapses, the routine loops
HitDebounceElapsed(p) ==
    /\ PadTurn(p)
    /\ pinPc[p] = "Debounce"
    /\ pinTimer[p] = 0
    /\ pinPc' = [pinPc EXCEPT ![p] = "WaitHigh"]
    /\ pinTimer' = [pinTimer EXCEPT ![p] = 0]
    /\ UNCHANGED <<now, level, gpioPc, gpioTimer, pin_high_count,
                   is_pedal_hi_hat_pressed, status_signal, lastStatus,
                   hit_events, edges>>
    /\ UNCHANGED lmVars

\* the re-arm delay left out: the loop starts over right after Off
RearmSkipped ==
    /\ gpioPc = "Rearm"
    /\ gpioPc' = "WaitAnyHigh"
    /\ UNCHANGED <<now, level, pinPc, pinTimer, gpioTimer, pin_high_count,
                   is_pedal_hi_hat_pressed, status_signal, lastStatus,
                   hit_events, edges>>
    /\ UNCHANGED lmVars

\* Timer::after(SWITCH_OFF_SENSORS_STABILIZE_TIME) elapses, the loop of
\* watch_gpios_task starts over
RearmElapsed ==
    /\ gpioPc = "Rearm"
    /\ gpioTimer = 0
    /\ gpioPc' = "WaitAnyHigh"
    /\ UNCHANGED <<now, level, pinPc, pinTimer, gpioTimer, pin_high_count,
                   is_pedal_hi_hat_pressed, status_signal, lastStatus,
                   hit_events, edges>>
    /\ UNCHANGED lmVars

\* ------------------------------------------------------------ environment
\* d microseconds pass: the clock advances and every running timer runs down
Elapse(d) ==
    /\ now' = now + d
    /\ pinTimer' = [p \in pins_notes_map |->
                      IF pinPc[p] \in {"StableHigh", "StableLow", "Debounce"}
                      THEN pinTimer[p] - d ELSE pinTimer[p]]
    /\ gpioTimer' = IF gpioPc \in {"InitDelay", "Rearm"}
                    THEN gpioTimer - d ELSE gpioTimer

\* a stability window is open on some pad
WindowOpen == \E p \in pins_notes_map : pinPc[p] \in {"StableHigh", "StableLow"}

\* pin p changes level: NoiseTime after the last step if that is inside its
\* stability window, HoldTime after it if no window is open; no pending
\* timer expires in between
PinFlip(p) ==
    /\ ~Runnable
    /\ gpioPc # "InitDelay"
    /\ edges < MaxEdges
    /\ WindowOpen => pinPc[p] \in {"StableHigh", "StableLow"}
    /\ LET d == IF WindowOpen THEN NoiseTime ELSE HoldTime
       IN /\ \A t \in ActiveTimers : d < t
          /\ Elapse(d)
    /\ level' = [level EXCEPT ![p] = ~level[p]]
    /\ edges' = edges + 1
    /\ UNCHANGED <<pinPc, gpioPc, pin_high_count, is_pedal_hi_hat_pressed,
                   status_signal, lastStatus, hit_events>>
    /\ UNCHANGED lmVars

\* the executor idles until the earliest timer is due
TimePasses ==
    /\ ~Runnable
    /\ ActiveTimers # {}
    /\ Elapse(SetMin(ActiveTimers))
    /\ UNCHANGED <<level, pinPc, gpioPc, pin_high_count,
                   is_pedal_hi_hat_pressed, status_signal, lastStatus,
                   hit_events, edges>>
    /\ UNCHANGED lmVars

\* -------------------------------------------------- tasks/ble.rs actions
\* midi_service_task (re)enters its while-let: advertise_and_connect raced
\* against a fresh 60 s timeout
StartAdvertising ==
    /\ lmPc' = "Advertising"

\* the connection handle is not released at the end of the body
EndIterationKeepsConn ==
    /\ conns' = conns
    /\ conn' = 0
    /\ accepted' = 0
    /\ StartAdvertising
    /\ blinkDone' = FALSE
    /\ svcDone' = FALSE

\* the body of the while-let is left: conn goes out of scope
EndIteration ==
    /\ conns' = conns \ {conn}
    /\ conn' = 0
    /\ accepted' = 0
    /\ StartAdvertising
    /\ blinkDone' = FALSE
    /\ svcDone' = FALSE

\* connection_service_tasks (the select of the two duties) finishes; the
\* join still waits for connected_led_blink_task
EndServices(reason) ==
    /\ ended' = Append(ended, reason)
    /\ IF blinkDone
       THEN EndIteration
       ELSE /\ svcDone' = TRUE
            /\ UNCHANGED <<lmPc, blinkDone, conn, conns, accepted>>

\* the comparison of wait_for_status dropped: any signaled value starts
\* midi_service_task
WaitForStatusOnAnyValue ==
    /\ LmTurn
    /\ lmPc = "WaitOn"
    /\ status_signal # "None"
    /\ status_signal' = "None"
    /\ StartAdvertising
    /\ UNCHANGED <<blinkDone, svcDone, conn, conns>>
    /\ UNCHANGED <<now, lastStatus, hit_events, nextConn, accepted, inbound,
                   notified, ended>>
    /\ UNCHANGED gpioVars

\* wait_for_status(SensorsStatus::On): take the signaled value, loop unless
\* it is On; on On midi_service_task starts
WaitForStatusOn ==
    /\ LmTurn
    /\ lmPc = "WaitOn"
    /\ status_signal # "None"
    /\ status_signal' = "None"
    /\ IF status_signal = "On"
       THEN /\ StartAdvertising
            /\ UNCHANGED <<blinkDone, svcDone, conn, conns>>
       ELSE UNCHANGED <<lmPc, blinkDone, svcDone, conn, conns>>
    /\ UNCHANGED <<now, lastStatus, hit_events, nextConn, accepted, inbound,
                   notified, ended>>
    /\ UNCHANGED gpioVars

\* Off does not complete the select while a connection is served: the
\* session goes on until the peer disconnects
WaitForStatusOffKeepsSession ==
    /\ LmTurn
    /\ lmPc \in {"Advertising", "Connected"}
    /\ status_signal # "None"
    /\ status_signal' = "None"
    /\ IF status_signal = "Off" /\ lmPc = "Advertising"
       THEN /\ lmPc' = "WaitOn"
            /\ UNCHANGED <<blinkDone, svcDone, conn, conns, ended>>
       ELSE UNCHANGED <<lmPc, blinkDone, svcDone, conn, conns, ended>>
    /\ UNCHANGED <<now, lastStatus, hit_events, nextConn, accepted, inbound,
                   notified>>
    /\ UNCHANGED gpioVars

\* wait_for_status(SensorsStatus::Off) raced against midi_service_task:
\* take the signaled value; on Off the select completes, midi_service_task
\* is dropped with whatever it holds, and the loop waits for On again
WaitForStatusOff ==
    /\ LmTurn
    /\ lmPc \in {"Advertising", "Connected"}
    /\ status_signal # "None"
    /\ status_signal' = "None"
    /\ IF status_signal = "Off"
       THEN /\ lmPc' = "WaitOn"
            /\ conns' = conns \ {conn}
            /\ conn' = 0
            /\ accepted' = 0
            /\ blinkDone' = FALSE
            /\ svcDone' = FALSE
            /\ ended' = IF lmPc = "Connected" /\ ~svcDone
                         THEN Append(ended, "Off") ELSE ended
       ELSE UNCHANGED <<lmPc, blinkDone, svcDone, conn, conns, accepted,
                       ended>>
    /\ UNCHANGED <<now, lastStatus, hit_events, nextConn, inbound, notified>>
    /\ UNCHANGED gpioVars

\* advertise_and_connect returns a connection before the timeout; the two
\* duties and the LED blink start, notify_midi_events_task clears the queue
AdvertiseAccept ==
    /\ lmPc = "Advertising"
    /\ Quiet
    /\ nextConn < MaxConns
    /\ nextConn' = nextConn + 1
    /\ conn' = nextConn + 1
    /\ conns' = conns \cup {nextConn + 1}
    /\ lmPc' = "Connected"
    /\ blinkDone' = FALSE
    /\ svcDone' = FALSE
    /\ accepted' = now
    /\ UNCHANGED inbound
    /\ hit_events' = clear(hit_events)
    /\ UNCHANGED <<now, status_signal, lastStatus, notified, ended>>
    /\ UNCHANGED gpioVars

\* the 60 s with_timeout expires: the while-let ends, the timeout is logged
\* and midi_service_task returns, which completes the select of
\* peripheral_run; its loop starts over at wait_for_status(On)
AdvertiseTimeout ==
    /\ lmPc = "Advertising"
    /\ Quiet
    /\ lmPc' = "WaitOn"
    /\ UNCHANGED <<now, blinkDone, svcDone, conn, conns, nextConn, accepted,
                   inbound,
                   notified, ended, status_signal, lastStatus, hit_events>>
    /\ UNCHANGED gpioVars

\* the characteristic payload notify_midi_events_task builds for a hit
HitPayload(ts, note) ==
    as_gatt(PacketFrom(ts, NoteOn(MIDI_CHANNEL, note, MIDI_VELOCITY)))

\* the result of notify ignored: the loop goes on after a failure
NotifyHitIgnoresError(ok) ==
    /\ LmTurn
    /\ lmPc = "Connected"
    /\ ~svcDone
    /\ hit_events # <<>>
    /\ hit_events' = Tail(hit_events)
    /\ LET hit == Head(hit_events)
       IN IF ok
          THEN /\ notified' =
                    Append(notified,
                           [conn |-> conn, ts |-> hit.ts, note |-> hit.note,
                            bytes |-> HitPayload(hit.ts, hit.note)])
               /\ UNCHANGED ended
          ELSE /\ ended' = Append(ended, "NotifyError")
               /\ UNCHANGED notified
    /\ UNCHANGED <<lmPc, blinkDone, svcDone, conn, conns>>
    /\ UNCHANGED <<now, status_signal, lastStatus, nextConn, accepted,
                   inbound>>
    /\ UNCHANGED gpioVars

\* notify_midi_events_task: receive a hit, encode it, notify; a failed
\* notify breaks the loop
NotifyHit(ok) ==
    /\ LmTurn
    /\ lmPc = "Connected"
    /\ ~svcDone
    /\ hit_events # <<>>
    /\ hit_events' = Tail(hit_events)
    /\ LET hit == Head(hit_events)
       IN IF ok
          THEN /\ notified' =
                    Append(notified,
                           [conn |-> conn, ts |-> hit.ts, note |-> hit.note,
                            bytes |-> HitPayload(hit.ts, hit.note)])
               /\ UNCHANGED <<lmPc, blinkDone, svcDone, conn, conns, accepted,
                              ended>>
          ELSE /\ EndServices("NotifyError")
               /\ UNCHANGED notified
    /\ UNCHANGED <<now, status_signal, lastStatus, nextConn, inbound>>
    /\ UNCHANGED gpioVars

\* gatt_events_task: conn.next() yields Disconnected
GattDisconnected ==
    /\ lmPc = "Connected"
    /\ ~svcDone
    /\ Quiet
    /\ EndServices("Disconnected")
    /\ UNCHANGED <<now, status_signal, lastStatus, hit_events, nextConn,
                   inbound, notified>>
    /\ UNCHANGED gpioVars

\* connected_led_blink_task: the 1 s with_timeout expires; the join
\* completes if the duties have finished already
BlinkTimeout ==
    /\ lmPc = "Connected"
    /\ ~blinkDone
    /\ Quiet
    /\ IF svcDone
       THEN EndIteration
       ELSE /\ blinkDone' = TRUE
            /\ UNCHANGED <<lmPc, svcDone, conn, conns, accepted>>
    /\ UNCHANGED <<now, status_signal, lastStatus, hit_events, nextConn,
                   inbound, notified, ended>>
    /\ UNCHANGED gpioVars

\* ------------------------------------------------------------------ Next
Next ==
    \/ InitialStabilizeElapsed
    \/ RoundStart
    \/ \E p \in pins_notes_map : StableHighWindowOpens(p)
    \/ \E p \in pins_notes_map : StableHighNoise(p)
    \/ \E p \in pins_notes_map : RisingEdge(p)
    \/ \E p \in pins_notes_map : StableLowWindowOpens(p)
    \/ \E p \in pins_notes_map : StableLowNoise(p)
    \/ \E p \in pins_notes_map : FallingEdge(p)
    \/ \E p \in pins_notes_map : HitDebounceElapsed(p)
    \/ RearmElapsed
    \/ WaitForStatusOn
    \/ WaitForStatusOff
    \/ AdvertiseAccept
    \/ AdvertiseTimeout
    \/ \E ok \in BOOLEAN : NotifyHit(ok)
    \/ GattDisconnected
    \/ BlinkTimeout
    \/ \E p \in pins_notes_map : PinFlip(p)
    \/ TimePasses

Spec == Init /\ [][Next]_vars

\* ------------------------------------------------- the channel on its own
\* messages are sent into the channel one microsecond apart and received at
\* any time
QueueInit ==
    /\ Init
    /\ level = [p \in pins_notes_map |-> FALSE]

\* hit_events.force_send((Instant::now(), note))
QueueSend(note) ==
    /\ now < MaxSends
    /\ now' = now + 1
    /\ hit_events' = force_send(hit_events, [ts |-> now, note |-> note])
    /\ UNCHANGED <<status_signal, lastStatus>>
    /\ UNCHANGED gpioVars
    /\ UNCHANGED lmVars

\* hit_events.try_receive()
QueueReceive ==
    /\ hit_events # <<>>
    /\ hit_events' = try_receive(hit_events)
    /\ UNCHANGED <<now, status_signal, lastStatus>>
    /\ UNCHANGED gpioVars
    /\ UNCHANGED lmVars

QueueNext ==
    \/ QueueSend(Snare)
    \/ QueueReceive

SpecQueue == QueueInit /\ [][QueueNext]_vars

\* ------------------------------------------------- the notifier on its own
\* clock readings, in microseconds, around the bit boundaries of the packet
\* timestamp (2^7, 2^13 and 2^16 milliseconds)
ClockSamples ==
    {0, 999, 1000, 127000, 128000, 1000000, 8191000, 8192000, 65535000,
     65536000, 74728999}

\* a peer is connected, the pads are stable-high and one hit of any role with
\* any of the clock readings waits in the queue
CodecInit ==
    /\ now \in ClockSamples
    /\ level = [p \in pins_notes_map |-> TRUE]
    /\ pinPc = [p \in pins_notes_map |-> "WaitLow"]
    /\ pinTimer = [p \in pins_notes_map |-> 0]
    /\ gpioPc = "Round"
    /\ gpioTimer = 0
    /\ pin_high_count = Cardinality(pins_notes_map)
    /\ is_pedal_hi_hat_pressed = FALSE
    /\ status_signal = "None"
    /\ lastStatus = "On"
    /\ \E note \in DrumNote : hit_events = <<[ts |-> now, note |-> note]>>
    /\ lmPc = "Connected"
    /\ blinkDone \in BOOLEAN
    /\ svcDone = FALSE
    /\ conn = 1
    /\ conns = {1}
    /\ nextConn = 1
    /\ accepted = 0
    /\ inbound = NoWrite
    /\ notified = <<>>
    /\ ended = <<>>
    /\ edges = 0

CodecNext == \E ok \in BOOLEAN : NotifyHit(ok)

SpecCodec == CodecInit /\ [][CodecNext]_vars

\* ------------------------------------------- inbound decoding on its own
\* bytes a peer writes: a data byte, a channel status byte, a system status
\* byte
GattBytes == {0, 153, 255}

\* the values a peer writes: every byte string up to MaxWrite bytes
GattData == UNION {[1..n -> GattBytes] : n \in 0..MaxWrite}

GattInit == QueueInit

\* a peer writes its first value to the characteristic:
\* BleMidiPacket::from_gatt(data)
FromGatt(data) ==
    /\ inbound = NoWrite
    /\ inbound' = [data |-> data, decoded |-> from_gatt(data)]
    /\ UNCHANGED <<now, status_signal, lastStatus, hit_events>>
    /\ UNCHANGED gpioVars
    /\ UNCHANGED <<lmPc, blinkDone, svcDone, conn, conns, nextConn, accepted,
                   notified, ended>>

GattNext == \E data \in GattData : FromGatt(data)

SpecGatt == GattInit /\ [][GattNext]_vars

\* ================================================================ claims
\* pads whose routine has accepted a rising edge and no falling edge since
StableHighPads == {p \in pins_notes_map : pinPc[p] \in {"WaitLow", "StableLow"}}

\* C1: pin_high_count never underflows and always equals the number of pads
\* that are currently stable-high; a pad that is about to be decremented for
\* is counted.
C1_ActiveCountExact ==
    /\ pin_high_count = Cardinality(StableHighPads)
    /\ \A p \in pins_notes_map : pinPc[p] = "StableLow" => pin_high_count >= 1

\* two pads are counted while a third has been counted and released
C1_Witness ==
    /\ pin_high_count = 2
    /\ \E p \in pins_notes_map : pinPc[p] = "Debounce"

\* C5: a stable release of the OpenHiHat pad that enqueues a hit enqueues
\* ClosedHiHat if is_pedal_hi_hat_pressed is true at that moment and
\* OpenHiHat if it is false.
C5_HiHatClassification ==
    [][(pinPc[OpenHiHat] = "StableLow" /\ pinPc'[OpenHiHat] = "Debounce")
         => /\ hit_events' # <<>>
            /\ hit_events'[Len(hit_events')].note =
                 (IF is_pedal_hi_hat_pressed THEN ClosedHiHat ELSE OpenHiHat)
            /\ hit_events'[Len(hit_events')].ts = now
            /\ Len(hit_events') = Len(hit_events) + 1]_vars

\* the OpenHiHat pad was released with the pedal held: its hit is queued as
\* ClosedHiHat
C5_Witness ==
    /\ pinPc[OpenHiHat] = "Debounce"
    /\ is_pedal_hi_hat_pressed
    /\ hit_events # <<>>
    /\ hit_events[Len(hit_events)].note = ClosedHiHat

\* C6: a level that reverses inside the 150 us stability window is discarded:
\* the routine goes back to the start of its wait and pin_high_count,
\* is_pedal_hi_hat_pressed and the queue are untouched; an edge is accepted
\* only when the window has run out with the level unchanged, and every
\* window starts with the full duration.
C6_NoiseDiscarded ==
    [][\A p \in pins_notes_map :
         /\ (pinPc[p] = "StableHigh" /\ ~level[p] /\ pinPc'[p] # pinPc[p])
              => /\ pinPc'[p] = "WaitHigh"
                 /\ UNCHANGED <<pin_high_count, is_pedal_hi_hat_pressed,
                                hit_events, status_signal>>
         /\ (pinPc[p] = "StableLow" /\ level[p] /\ pinPc'[p] # pinPc[p])
              => /\ pinPc'[p] = "WaitLow"
                 /\ UNCHANGED <<pin_high_count, is_pedal_hi_hat_pressed,
                                hit_events, status_signal>>
         /\ (pinPc[p] = "StableHigh" /\ pinPc'[p] = "WaitLow")
              => level[p] /\ pinTimer[p] = 0
         /\ (pinPc[p] = "StableLow" /\ pinPc'[p] \in {"Debounce", "Idle"})
              => ~level[p] /\ pinTimer[p] = 0
         /\ (pinPc[p] \notin {"StableHigh", "StableLow"}
             /\ pinPc'[p] \in {"StableHigh", "StableLow"})
              => pinTimer'[p] = STABLE_DURATION]_vars

\* the Snare pin rose 4850 us after the first counts of the round and fell
\* again 100 us later: its routine is back at the start of the wait and
\* nothing was counted or queued for it
C6_Witness ==
    /\ now = INITIAL_SENSORS_STABILIZE_TIME + STABLE_DURATION + HoldTime
             + NoiseTime
    /\ edges = 2
    /\ pinPc[Snare] = "WaitHigh"
    /\ ~level[Snare]
    /\ pinPc[OpenHiHat] = "WaitLow"
    /\ pinPc[PedalHiHat] = "WaitLow"
    /\ pin_high_count = 2
    /\ hit_events = <<>>

\* a stable release of pad p: its routine leaves the stability window of the
\* low level by accepting the falling edge
Release(p) == pinPc[p] = "StableLow" /\ pinPc'[p] \notin {"StableLow", "WaitLow"}

\* the Note-On bytes after the two timestamp bytes: status 0x99 (channel
\* index 9), the note, velocity 100
NoteOnBytes(note) == <<153, note, 100>>

\* C2 as stated: every stable release of the Snare pad (low, high, low with a
\* hold longer than the window) enqueues exactly one HitEvent (ts, Snare).
C2_EveryReleaseEnqueues ==
    [][Release(Snare)
         => hit_events' = Append(hit_events, [ts |-> now, note |-> Snare])]_vars

\* C2 amended: a stable release of the Snare pad enqueues exactly one
\* HitEvent (ts, Snare) when another pad is still stable-high, and nothing
\* when it brings pin_high_count to 0 (the round ends with status Off); every
\* notification takes exactly one hit from the head of the queue, on the
\* connection held, and for a Snare hit its payload is five bytes ending in
\* 0x99, 38, 100.
C2_ReleaseWithOtherPadHigh ==
    [][/\ (Release(Snare) /\ pin_high_count > 1)
            => hit_events' = Append(hit_events, [ts |-> now, note |-> Snare])
       /\ (Release(Snare) /\ pin_high_count = 1)
            => /\ hit_events' = hit_events
               /\ lastStatus' = "Off"
               /\ gpioPc' = "Rearm"
       /\ notified' # notified
            => /\ hit_events # <<>>
               /\ hit_events' = Tail(hit_events)
               /\ Len(notified') = Len(notified) + 1
               /\ SubSeq(notified', 1, Len(notified)) = notified
               /\ LET r == notified'[Len(notified')]
                  IN /\ r.conn = conn /\ conn \in conns
                     /\ r.ts = Head(hit_events).ts
                     /\ r.note = Head(hit_events).note
                     /\ Len(r.bytes) = 5
                     /\ r.note = Snare
                          => SubSeq(r.bytes, 3, 5) = NoteOnBytes(38)]_vars

\* with the other two pads stable-high and a peer connected, the Snare pin
\* rose, stayed high for 5 ms and fell: one Snare hit was queued at the end of
\* the window and the peer got exactly one notification for it
C2_Witness ==
    /\ edges = 2
    /\ pinPc[Snare] = "Debounce"
    /\ pin_high_count = 2
    /\ hit_events = <<>>
    /\ Len(notified) = 1
    /\ notified[1].conn = 1
    /\ notified[1].note = Snare
    /\ notified[1].ts = INITIAL_SENSORS_STABILIZE_TIME + 2 * 5000
                        + STABLE_DURATION
    /\ SubSeq(notified[1].bytes, 3, 5) = <<153, 38, 100>>

\* C3 as stated: after an advertising timeout the link manager is advertising
\* again while the status is still On: with On the latest status and taken
\* from the slot, the link manager is never idle.
C3_AdvertisesWhileOn ==
    (lastStatus = "On" /\ status_signal = "None")
        => lmPc \in {"Advertising", "Connected"}

\* C3 amended: the advertising timeout is not fatal and changes nothing but
\* the position of the link manager, which goes back to waiting for a status
\* signal; it leaves that wait only for the Advertising state and only by
\* taking a newly signaled On from the slot.
C3_RestartNeedsNewOn ==
    [][/\ (lmPc = "Advertising" /\ lmPc' = "WaitOn" /\ status_signal # "Off")
            => /\ status_signal = "None"
               /\ UNCHANGED <<now, status_signal, lastStatus, hit_events,
                              blinkDone, svcDone, conn, conns, nextConn,
                              accepted, inbound, notified, ended>>
               /\ UNCHANGED gpioVars
       /\ (lmPc = "WaitOn" /\ lmPc' # "WaitOn")
            => /\ lmPc' = "Advertising"
               /\ status_signal = "On"
               /\ status_signal' = "None"
               /\ lastStatus = "On"]_vars

\* the advertising window ran out during a round: the status is still On,
\* nothing is pending in the slot, and the link manager is idle
C3_Witness ==
    /\ lmPc = "WaitOn"
    /\ lastStatus = "On"
    /\ status_signal = "None"
    /\ gpioPc = "Round"
    /\ conns = {}

\* C4: when the link manager takes Off while connected, the Connected phase
\* ends at once, whether or not the duties have ended, the connection is
\* dropped and nothing is notified; a notification is only ever sent on the
\* connection currently held; the next On leads to a fresh Advertising state
\* without a connection, and a connection accepted later is a new one.
C4_OffEndsSession ==
    [][/\ (lmPc = "Connected" /\ status_signal = "Off"
           /\ status_signal' # status_signal)
            => /\ lmPc' = "WaitOn"
               /\ conn' = 0
               /\ conns' = {}
               /\ notified' = notified
       /\ notified' # notified
            => /\ lmPc = "Connected"
               /\ conn # 0
               /\ notified'[Len(notified')].conn = conn
               /\ conn = nextConn
       /\ (lmPc = "WaitOn" /\ status_signal = "On"
           /\ status_signal' # status_signal)
            => /\ lmPc' = "Advertising"
               /\ conn' = 0
               /\ conns' = {}
       /\ conn' # conn
            => \/ conn' = 0
               \/ /\ conn = 0
                  /\ lmPc = "Advertising"
                  /\ conn' = nextConn + 1
                  /\ hit_events' = <<>>]_vars

\* the first connection was ended by Off, the bank came back On and the link
\* manager advertises again with no connection
C4_Witness ==
    /\ Len(ended) = 1
    /\ ended[1] = "Off"
    /\ nextConn = 1
    /\ lmPc = "Advertising"
    /\ lastStatus = "On"
    /\ conns = {}
    /\ conn = 0

\* C9 as stated: in every state where the latest status is not On the link
\* manager neither advertises nor holds a connection.
C9_IdleWheneverOff ==
    lastStatus # "On" => (lmPc = "WaitOn" /\ conns = {})

\* C9 amended: in every state where the latest status is not On and the link
\* manager has taken it from the slot (or none was ever signaled), the link
\* manager neither advertises nor holds a connection.
C9_IdleOnceOffTaken ==
    (lastStatus # "On" /\ status_signal = "None")
        => (lmPc = "WaitOn" /\ conn = 0 /\ conns = {})

\* Off was signaled while a peer was connected and has been taken: the link
\* manager is idle without a connection
C9_Witness ==
    /\ lastStatus = "Off"
    /\ status_signal = "None"
    /\ lmPc = "WaitOn"
    /\ conns = {}
    /\ ended = <<"Off">>

\* C10: at most one connection is held; a failed notify or a Disconnected
\* event ends only the duties of the current connection and leaves the sensor
\* side, the status and the queue of later hits alone; the Connected phase is
\* left for Advertising without a connection, or for the idle wait when Off
\* was signaled; once the duties have ended only the LED blink is awaited.
C10_RecoverableFailures ==
    /\ [](/\ Cardinality(conns) <= 1
          /\ conn # 0 => (conns = {conn} /\ lmPc = "Connected")
          /\ conn = 0 => (conns = {} /\ lmPc # "Connected")
          /\ svcDone => (lmPc = "Connected" /\ ~blinkDone))
    /\ [][/\ (Len(ended') > Len(ended)
              /\ ended'[Len(ended')] \in {"NotifyError", "Disconnected"})
               => /\ lmPc = "Connected"
                  /\ \/ lmPc' = "Advertising" /\ conns' = {}
                     \/ lmPc' = "Connected" /\ svcDone' /\ conns' = conns
                  /\ UNCHANGED <<status_signal, lastStatus, notified, nextConn>>
                  /\ UNCHANGED gpioVars
          /\ (lmPc = "Connected" /\ lmPc' # "Connected")
               => /\ conns' = {}
                  /\ \/ lmPc' = "Advertising" /\ status_signal' = status_signal
                     \/ lmPc' = "WaitOn" /\ status_signal = "Off"]_vars

\* the first connection ended on a failed notify, the link manager advertised
\* again and now serves a second connection
C10_Witness ==
    /\ Len(ended) = 1
    /\ ended[1] = "NotifyError"
    /\ lmPc = "Connected"
    /\ conn = 2
    /\ conns = {2}
    /\ lastStatus = "On"

\* C7: force_send on a full channel leaves N entries, with the new message
\* as the newest, the previously oldest entry gone and the other N - 1 in
\* their order; on a channel that is not full it appends the message and
\* evicts nothing.
C7_ForceSendOverwritesOldest ==
    [][\A note \in DrumNote :
         QueueSend(note) =>
           LET q == hit_events
               r == hit_events'
               message == [ts |-> now, note |-> note]
           IN IF Len(q) = N
              THEN /\ Len(r) = N
                   /\ r[N] = message
                   /\ \A i \in 1..(N - 1) : r[i] = q[i + 1]
                   /\ \A i \in 1..N : r[i] # q[1]
              ELSE /\ Len(r) = Len(q) + 1
                   /\ r[Len(r)] = message
                   /\ \A i \in 1..Len(q) : r[i] = q[i]]_vars

\* eighteen messages were sent and none received: the channel holds the last
\* sixteen of them, the two oldest are gone
C7_Witness ==
    /\ now = N + 2
    /\ Len(hit_events) = N
    /\ hit_events[1].ts = 2
    /\ hit_events[N].ts = N + 1

\* C8: the payload notified for a hit (timestamp ms, note n) is the five bytes
\* 0x80 | ((ms >> 7) & 0x3F), 0x80 | (ms & 0x7F), 0x99, n, 0x64; for 1000 ms
\* and note 36 that is 0x87, 0xE8, 0x99, 0x24, 0x64.
C8_PayloadBytes ==
    /\ \A i \in 1..Len(notified) :
         LET ms == notified[i].ts \div 1000
         IN notified[i].bytes =
              <<128 + ((ms \div 128) % 64), 128 + (ms % 128), 153,
                notified[i].note, 100>>
    /\ as_gatt(PacketFrom(1000 * 1000, NoteOn(9, 36, 100)))
         = <<135, 232, 153, 36, 100>>

\* the BassDrum hit taken at 1000 ms went out as 87 E8 99 24 64
C8_Witness ==
    /\ Len(notified) = 1
    /\ notified[1].ts = 1000000
    /\ notified[1].note = BassDrum
    /\ notified[1].bytes = <<135, 232, 153, 36, 100>>

\* C11: a connection starts with an empty queue; while the notifier runs,
\* every hit in the queue was enqueued after the connection held was accepted,
\* and every notification carries such a hit; the accept time is that of the
\* latest accept.
C11_NoStaleHits ==
    /\ []((lmPc = "Connected" /\ ~svcDone)
            => \A i \in 1..Len(hit_events) : hit_events[i].ts > accepted)
    /\ [][/\ (conn' # conn /\ conn' # 0)
               => /\ hit_events' = <<>>
                  /\ accepted' = now
                  /\ conn' = nextConn + 1
          /\ (conn' = conn /\ conn # 0) => accepted' = accepted
          /\ notified' # notified
               => /\ notified'[Len(notified')].conn = conn
                  /\ notified'[Len(notified')].ts = Head(hit_events).ts
                  /\ notified'[Len(notified')].ts > accepted]_vars

\* two pads were released in a round that began with all pads high: the hit
\* of the first was queued while the link manager advertised, a connection
\* was accepted after it, and the only notification on that connection
\* carries the later hit
C11_Witness ==
    /\ nextConn = 1
    /\ conn = 1
    /\ accepted > INITIAL_SENSORS_STABILIZE_TIME + STABLE_DURATION + HoldTime
    /\ Len(notified) = 1
    /\ notified[1].conn = 1
    /\ notified[1].ts > accepted
    /\ edges = 2
    /\ pin_high_count = 1
    /\ Cardinality({p \in pins_notes_map : ~level[p]}) = 2
    /\ hit_events = <<>>
    /\ ended = <<>>

\* C12: the two timestamp bytes of a notified packet have bit 7 set, the
\* header has bit 6 clear, and ((header & 0x3F) << 7) | (timestamp & 0x7F) is
\* the hit's milliseconds modulo 2^13; every clock reading and every explicit
\* u16 timestamp congruent to it modulo 2^13 gives the same two bytes.
C12_RollingTimestamp ==
    \A i \in 1..Len(notified) :
      LET r == notified[i]
          ms == r.ts \div 1000
          header == r.bytes[1]
          timestamp == r.bytes[2]
          msg == NoteOn(MIDI_CHANNEL, r.note, MIDI_VELOCITY)
      IN /\ header \in 128..191
         /\ timestamp \in 128..255
         /\ BitOr(BitAnd(header, 63) * Pow2(7), BitAnd(timestamp, 127))
              = ms % Pow2(13)
         /\ \A c \in ClockSamples :
              (c \div 1000) % Pow2(13) = ms % Pow2(13)
                => /\ SubSeq(as_gatt(PacketFrom(c, msg)), 1, 2)
                        = <<header, timestamp>>
                   /\ SubSeq(as_gatt(build(add_timestamped(
                                 (c \div 1000) % Pow2(13), msg))), 1, 2)
                        = <<header, timestamp>>

\* a hit taken 74728 ms after start (9 * 2^13 + 1000, beyond the u16 range)
\* went out with the timestamp bytes of 1000 ms
C12_Witness ==
    /\ Len(notified) = 1
    /\ notified[1].ts = 74728999
    /\ SubSeq(notified[1].bytes, 1, 2) = <<135, 232>>

\* C13: from_gatt(data) succeeds exactly when MIN_SIZE <= Len(data) <= CAP and
\* fails with InvalidLength otherwise; on success the packet holds the bytes
\* as written: as_gatt gives data back and the length is at most CAP.
C13_FromGattLengthCheck ==
    inbound # NoWrite =>
      LET data == inbound.data
          decoded == inbound.decoded
      IN /\ decoded.ok <=> (MIN_SIZE <= Len(data) /\ Len(data) <= CAP)
         /\ ~decoded.ok => decoded.err = "InvalidLength"
         /\ decoded.ok => /\ as_gatt(decoded.packet) = data
                          /\ decoded.packet.len = Len(data)
                          /\ decoded.packet.len <= CAP

\* a value of MIN_SIZE bytes was written and decoded
C13_Witness ==
    /\ inbound.data = <<153, 0, 255>>
    /\ inbound.decoded.ok
    /\ inbound.decoded.packet.buffer = <<153, 0, 255, 0, 0>>

\* C14: watch_gpios_task signals On, Off, On, Off, ... starting with On: On
\* once when it leaves the wait for any high pin with some pin high, Off once
\* when the race of the pad routines completes, and nothing in between; after
\* Off the 200 ms re-arm timer runs down in full before the wait for a high
\* pin, and with it the next On, can start.
C14_SignalsAlternate ==
    /\ [](/\ lastStatus = "On" <=> gpioPc = "Round"
          /\ lastStatus = "Off" => gpioPc \in {"Rearm", "WaitAnyHigh"}
          /\ gpioPc = "Rearm" => lastStatus = "Off"
          /\ status_signal \in {"None", lastStatus})
    /\ [][/\ (gpioPc = "WaitAnyHigh" /\ gpioPc' # gpioPc)
               => /\ gpioPc' = "Round"
                  /\ \E p \in pins_notes_map : level[p]
                  /\ lastStatus \in {"None", "Off"}
                  /\ lastStatus' = "On"
                  /\ status_signal' = "On"
          /\ (gpioPc = "Round" /\ gpioPc' # gpioPc)
               => /\ gpioPc' = "Rearm"
                  /\ lastStatus' = "Off"
                  /\ status_signal' = "Off"
                  /\ gpioTimer' = SWITCH_OFF_SENSORS_STABILIZE_TIME
          /\ (gpioPc' = gpioPc \/ gpioPc \in {"InitDelay", "Rearm"})
               => /\ lastStatus' = lastStatus
                  /\ status_signal' \in {status_signal, "None"}
          /\ (gpioPc = "Rearm" /\ gpioPc' = gpioPc)
               => /\ gpioTimer - gpioTimer' = now' - now
                  /\ gpioTimer' >= 0
          /\ (gpioPc = "Rearm" /\ gpioPc' # gpioPc)
               => /\ gpioPc' = "WaitAnyHigh"
                  /\ gpioTimer = 0]_vars

\* On, Off and On again: the second round has begun, which takes both
\* 200 ms delays
C14_Witness ==
    /\ gpioPc = "Round"
    /\ lastStatus = "On"
    /\ now >= INITIAL_SENSORS_STABILIZE_TIME + SWITCH_OFF_SENSORS_STABILIZE_TIME
    /\ edges >= 2

\* C15: Off is signaled exactly by the stable release that brings
\* pin_high_count to 0, made by the only pad that is still stable-high; that
\* step abandons every pad routine and produces no flag change and no hit,
\* and until the next round starts nothing changes the count or the flag or
\* enqueues a hit.
C15_RoundEndsAtZero ==
    /\ [](gpioPc # "Round"
            => \A p \in pins_notes_map : pinPc[p] = "Idle" /\ pinTimer[p] = 0)
    /\ [][/\ lastStatus' # lastStatus /\ lastStatus' = "Off"
               => /\ pin_high_count = 1
                  /\ pin_high_count' = 0
                  /\ \E p \in pins_notes_map :
                       /\ Release(p)
                       /\ StableHighPads = {p}
                       /\ ~level[p]
                       /\ pinTimer[p] = 0
                  /\ \A p \in pins_notes_map : pinPc'[p] = "Idle"
                  /\ gpioPc' = "Rearm"
                  /\ UNCHANGED <<is_pedal_hi_hat_pressed, hit_events>>
          /\ \A p \in pins_notes_map :
               (Release(p) /\ pin_high_count' = 0)
                 => lastStatus = "On" /\ lastStatus' = "Off"
          /\ (gpioPc \in {"Rearm", "WaitAnyHigh"} /\ gpioPc' # "Round")
               => /\ UNCHANGED <<pin_high_count, is_pedal_hi_hat_pressed,
                                 pinPc>>
                  /\ hit_events' \in {hit_events, <<>>}]_vars

\* two pads were high at the start; the first was released and its routine
\* was in its hit debounce when the release of the second ended the round
C15_Witness ==
    /\ gpioPc = "Rearm"
    /\ lastStatus = "Off"
    /\ pin_high_count = 0
    /\ edges = 2
    /\ \A p \in pins_notes_map : ~level[p] /\ pinPc[p] = "Idle"
    /\ now = INITIAL_SENSORS_STABILIZE_TIME + STABLE_DURATION
             + 2 * (HoldTime + STABLE_DURATION)

\* C16: every round starts with pin_high_count 0 and is_pedal_hi_hat_pressed
\* false and with every pad routine at the start of its loop with no timer
\* running, whatever the previous round left behind.
C16_FreshRoundState ==
    [][(gpioPc # "Round" /\ gpioPc' = "Round")
         => /\ pin_high_count' = 0
            /\ is_pedal_hi_hat_pressed' = FALSE
            /\ \A p \in pins_notes_map :
                 pinPc'[p] = "WaitHigh" /\ pinTimer'[p] = 0]_vars

\* the first round ended with the pedal held (its hit was queued and the
\* pedal pin never rose again); the second round has just begun with the
\* flag false and the count 0
C16_Witness ==
    /\ gpioPc = "Round"
    /\ now >= INITIAL_SENSORS_STABILIZE_TIME + SWITCH_OFF_SENSORS_STABILIZE_TIME
    /\ edges = 3
    /\ ~level[PedalHiHat]
    /\ \/ \E i \in 1..Len(hit_events) : hit_events[i].note = PedalHiHat
       \/ \E i \in 1..Len(notified) : notified[i].note = PedalHiHat
    /\ is_pedal_hi_hat_pressed = FALSE
    /\ pin_high_count = 0

\* a stable rising edge of pad p is accepted
Rise(p) == pinPc[p] = "StableHigh" /\ pinPc'[p] = "WaitLow"

\* C17: is_pedal_hi_hat_pressed changes only in a stable transition of the
\* PedalHiHat pad (or when a round starts): a rising edge of that pad leaves it
\* false, a falling edge that does not end the round leaves it true, the
\* falling edge that ends the round and the transitions of every other pad
\* leave it as it is; only the OpenHiHat pad's note depends on it.
C17_PedalFlagFrame ==
    /\ [](gpioPc = "Round"
            => /\ pinPc[PedalHiHat] \in {"WaitLow", "StableLow"}
                    => ~is_pedal_hi_hat_pressed
               /\ pinPc[PedalHiHat] = "Debounce" => is_pedal_hi_hat_pressed)
    /\ [][/\ is_pedal_hi_hat_pressed' # is_pedal_hi_hat_pressed
               => \/ Rise(PedalHiHat)
                  \/ Release(PedalHiHat) /\ pin_high_count' # 0
                  \/ gpioPc # "Round" /\ gpioPc' = "Round"
          /\ Rise(PedalHiHat) => is_pedal_hi_hat_pressed' = FALSE
          /\ (Release(PedalHiHat) /\ pin_high_count' # 0)
               => is_pedal_hi_hat_pressed' = TRUE
          /\ (Release(PedalHiHat) /\ pin_high_count' = 0)
               => UNCHANGED is_pedal_hi_hat_pressed
          /\ \A p \in pins_notes_map \ {PedalHiHat} :
               (Rise(p) \/ Release(p)) => UNCHANGED is_pedal_hi_hat_pressed
          /\ \A p \in pins_notes_map \ {OpenHiHat} :
               (Release(p) /\ pin_high_count' # 0)
                 => hit_events'[Len(hit_events')].note = p]_vars

\* the pedal pad was released (its hit was queued with the flag set) and has
\* gone stable-high again in the same round: the flag is false
C17_Witness ==
    /\ gpioPc = "Round"
    /\ now < INITIAL_SENSORS_STABILIZE_TIME + SWITCH_OFF_SENSORS_STABILIZE_TIME
    /\ pinPc[PedalHiHat] = "WaitLow"
    /\ \/ \E i \in 1..Len(hit_events) : hit_events[i].note = PedalHiHat
       \/ \E i \in 1..Len(notified) : notified[i].note = PedalHiHat
    /\ is_pedal_hi_hat_pressed = FALSE

\* the pad a queued note comes from
PadOf(note) == IF note = ClosedHiHat THEN OpenHiHat ELSE note

\* the hits still queued and the hits notified
KnownHits ==
    {[ts |-> hit_events[i].ts, note |-> hit_events[i].note] :
        i \in 1..Len(hit_events)}
    \cup {[ts |-> notified[i].ts, note |-> notified[i].note] :
            i \in 1..Len(notified)}

\* C18: a release that enqueues a hit with timestamp t starts a hold of 30 ms
\* on its pad; the hold runs down with the clock and the routine leaves it
\* only when it is over (or when another pad ends the round), without a count
\* change or a hit of its own; two hits of the same pad are at least 30 ms
\* apart; the other pads' routines act during the hold.
C18_HitDebounce ==
    /\ [](\A h1, h2 \in KnownHits :
            (h1 # h2 /\ PadOf(h1.note) = PadOf(h2.note))
              => (h1.ts - h2.ts >= 30000 \/ h2.ts - h1.ts >= 30000))
    /\ [][\A p \in pins_notes_map :
            /\ (Release(p) /\ pin_high_count' # 0)
                 => /\ pinPc'[p] = "Debounce"
                    /\ pinTimer'[p] = 30000
                    /\ hit_events'[Len(hit_events')].ts = now
            /\ (pinPc[p] = "Debounce" /\ pinPc'[p] = "Debounce")
                 => /\ pinTimer[p] - pinTimer'[p] = now' - now
                    /\ pinTimer'[p] >= 0
                    /\ \A i \in 1..Len(hit_events') :
                         (PadOf(hit_events'[i].note) = p
                          /\ hit_events'[i].ts = now)
                           => \E j \in 1..Len(hit_events) :
                                hit_events[j] = hit_events'[i]
            /\ (pinPc[p] = "Debounce" /\ pinPc'[p] # "Debounce")
                 => \/ /\ pinTimer[p] = 0
                       /\ pinPc'[p] = "WaitHigh"
                       /\ UNCHANGED <<pin_high_count, hit_events,
                                      is_pedal_hi_hat_pressed>>
                    \/ /\ pinPc'[p] = "Idle"
                       /\ gpioPc' = "Rearm"
                       /\ \E q \in pins_notes_map \ {p} : Release(q)]_vars

\* the Snare pad was hit twice in one round, 35.15 ms apart (30 ms of hold,
\* the window of the rising edge, 4.85 ms high, the window of the falling
\* edge), and both hits were notified
C18_Witness ==
    /\ Len(notified) = 2
    /\ notified[1].note = Snare
    /\ notified[2].note = Snare
    /\ notified[2].ts - notified[1].ts = 30000 + 2 * STABLE_DURATION + HoldTime
    /\ pinPc[Snare] = "Debounce"

C20_LastReleaseSilent ==
    [][\A p \in pins_notes_map :
         /\ (Release(p) /\ pin_high_count' # 0)
              => /\ Len(hit_events') = Len(hit_events) + 1
                 /\ SubSeq(hit_events', 1, Len(hit_events)) = hit_events
                 /\ PadOf(hit_events'[Len(hit_events')].note) = p
                 /\ hit_events'[Len(hit_events')].ts = now
                 /\ pinPc'[p] = "Debounce"
         /\ (Release(p) /\ pin_high_count' = 0)
              => /\ hit_events' = hit_events
                 /\ UNCHANGED is_pedal_hi_hat_pressed
                 /\ pinPc'[p] = "Idle"
                 /\ pinTimer'[p] = 0
                 /\ gpioPc' = "Rearm"]_vars

\* two pads were high when the round began: the release of the Snare pad
\* left a hit, the release of the other pad brought the count to 0 and left
\* none and no flag
C20_Witness ==
    /\ gpioPc = "Rearm"
    /\ edges = 2
    /\ \A p \in pins_notes_map : ~level[p]
    /\ pin_high_count = 0
    /\ is_pedal_hi_hat_pressed = FALSE
    /\ Cardinality(KnownHits) = 1
    /\ \A h \in KnownHits : h.note = Snare

====
